---- MODULE Spec2Model ----
(***************************************************************************)
(* FlickerTag (flicker_tag_cd.py): the polygon draw panel                  *)
(* (CustomPolygonDrawPanel), the main window's handlers (FlickerTag_GUI),  *)
(* the panel-to-image coordinate scaling and the automatic pairing of      *)
(* reference / target / result files.                                      *)
(*                                                                         *)
(* Qt runs every handler to completion on one thread, so each handler is   *)
(* one atomic action.                                                      *)
(***************************************************************************)
EXTENDS Integers, Sequences, FiniteSets, TLC

(***************************************************************************)
(* Bounds of the model.                                                    *)
(***************************************************************************)
\* longest candidate point list the annotator builds
MaxCand == 2
\* most polygons the annotator commits before undoing or saving
MaxPolys == 2
\* coordinates and extents of the pure scaling specifications lie in
\* -MaxExt..MaxExt
MaxExt == 3
\* most pieces (tags, a letter, an extension) a file name is made of
MaxPieces == 4
\* most points, candidate and committed together, on the panel of the whole
\* application
MaxPoints == 2

(***************************************************************************)
(* Small helpers on integers and sequences.                                *)
(***************************************************************************)
Min(a, b) == IF a <= b THEN a ELSE b

\* s[:-1]
ButLast(s) == SubSeq(s, 1, Len(s) - 1)

(***************************************************************************)
(* Python values.  None is the singleton; '' is the empty path.            *)
(***************************************************************************)
None == <<"None">>

EmptyStr == <<>>

(***************************************************************************)
(* The panel instance disp_C.  Python lists are objects: the record keeps  *)
(* a store `heap` of the point lists the panel can reach, and              *)
(* candidate_poly_points and the entries of poly_collection are references *)
(* into it (two references to one list see each other's appends).          *)
(* poly_collection and poly_class themselves are reached through the       *)
(* panel only, so they are kept by value.                                  *)
(***************************************************************************)

\* the point lists of the committed polygons, in order
Polygons(d) == [i \in 1..Len(d.poly_collection) |-> d.heap[d.poly_collection[i]]]

\* the points of the candidate list
Candidate(d) == d.heap[d.candidate_poly_points]

\* positions of s that hold the first occurrence of their value
Firsts(s) == {i \in 1..Len(s) : \A j \in 1..(i - 1) : s[j] # s[i]}

\* the k-th smallest element of a finite set of integers
Kth(S, k) == CHOOSE i \in S : Cardinality({j \in S : j <= i}) = k

\* the number reference r gets when the lists are numbered in the order
\* refs reaches them (F: the positions of refs with a first occurrence)
NewId(refs, F, r) ==
    Cardinality({i \in F : i <= (CHOOSE p \in F : refs[p] = r)})

Renumber(d, refs, F) ==
    [d EXCEPT
        !.heap = [k \in 1..Cardinality(F) |-> d.heap[refs[Kth(F, k)]]],
        !.poly_collection = [i \in 1..Len(d.poly_collection) |->
                                NewId(refs, F, d.poly_collection[i])],
        !.candidate_poly_points = NewId(refs, F, d.candidate_poly_points)]

\* Reference-counting collection: lists no longer referenced from the panel
\* are freed and the live ones are numbered in the order poly_collection,
\* candidate_poly_points reaches them.
Collect(d) ==
    Renumber(d, Append(d.poly_collection, d.candidate_poly_points),
             Firsts(Append(d.poly_collection, d.candidate_poly_points)))

\* a variant that empties the candidate list in place, del
\* self.candidate_poly_points[:], where the panel binds a new list
ClearCandidateInPlace(d) ==
    [d EXCEPT !.heap[d.candidate_poly_points] = <<>>]

\* self.candidate_poly_points = [] : bind the attribute to a new empty list
BindNewCandidate(d) ==
    [d EXCEPT !.heap = Append(d.heap, <<>>),
              !.candidate_poly_points = Len(d.heap) + 1]

\* The class-level defaults a new panel sees, and __init__.
NewPanel(cls) ==
    [heap |-> << <<>> >>,
     poly_collection |-> <<>>,
     candidate_poly_points |-> 1,
     poly_class |-> <<>>,
     current_back |-> None,
     current_class |-> cls]

\* refresh_panel: only current_back is program state, the pixmap is display.
refresh_panel(d, new_back_path) ==
    IF new_back_path # None THEN [d EXCEPT !.current_back = new_back_path] ELSE d

\* clear
clear(d) ==
    Collect([BindNewCandidate(d) EXCEPT !.poly_collection = <<>>,
                                        !.current_back = None,
                                        !.poly_class = <<>>])

\* a variant of do_undo with `if` where the panel has `elif`: the last polygon
\* goes together with the candidate points
drop_candidate_and_last(d) ==
    [BindNewCandidate(d) EXCEPT !.poly_collection = ButLast(@),
                                !.poly_class = ButLast(@)]

\* a variant of do_undo that drops the oldest polygon, [1:], where the panel
\* drops the newest, [:-1]
drop_first(d) ==
    IF Len(Candidate(d)) > 0
        THEN BindNewCandidate(d)
    ELSE IF Len(d.poly_collection) > 0
        THEN [d EXCEPT !.poly_collection = Tail(d.poly_collection),
                       !.poly_class = Tail(d.poly_class)]
    ELSE d

\* do_undo, before the refresh
drop_last(d) ==
    IF Len(Candidate(d)) > 0
        THEN BindNewCandidate(d)
    ELSE IF Len(d.poly_collection) > 0
        THEN [d EXCEPT !.poly_collection = ButLast(d.poly_collection),
                       !.poly_class = ButLast(d.poly_class)]
    ELSE d

\* do_undo
do_undo(d) == Collect(refresh_panel(drop_last(d), d.current_back))

\* get_polygons; the size of the panel is the caller's to supply
get_polygons(d, r_size) == <<Polygons(d), r_size, d.poly_class>>

\* mousePressEvent, left button: append to the candidate list in place
LeftButton(d, pos) ==
    [d EXCEPT !.heap[d.candidate_poly_points] = Append(@, pos)]

\* a variant of the right button that binds the new list before it appends
\* candidate_poly_points to poly_collection
RightButtonRebindFirst(d) ==
    [BindNewCandidate(d) EXCEPT !.poly_collection = Append(@, Len(d.heap) + 1),
                                !.poly_class = Append(@, d.current_class)]

\* mousePressEvent, right button: the candidate list itself becomes the last
\* polygon, then the attribute is bound to a new list
RightButton(d) ==
    BindNewCandidate(
        [d EXCEPT !.poly_collection = Append(@, d.candidate_poly_points),
                  !.poly_class = Append(@, d.current_class)])

\* a variant of mousePressEvent without the test of current_back
mousePressEvent_unguarded(d, button, pos) ==
    IF button = "Left" THEN Collect(LeftButton(d, pos))
    ELSE IF button = "Right" THEN Collect(RightButton(d))
    ELSE d

\* mousePressEvent
mousePressEvent(d, button, pos) ==
    IF d.current_back # None
        THEN IF button = "Left" THEN Collect(LeftButton(d, pos))
             ELSE IF button = "Right" THEN Collect(RightButton(d))
             ELSE d
        ELSE d

(***************************************************************************)
(* Python str, as sequences of characters.                                 *)
(***************************************************************************)
\* s[i-1:] starts with t
MatchAt(s, t, i) ==
    /\ i + Len(t) - 1 <= Len(s)
    /\ SubSeq(s, i, i + Len(t) - 1) = t

\* the least, the greatest element of a set of positions; 0 when it is empty
Least(S) == IF S = {} THEN 0 ELSE CHOOSE i \in S : \A j \in S : i <= j

Greatest(S) == IF S = {} THEN 0 ELSE CHOOSE i \in S : \A j \in S : j <= i

\* s.find(t, from), 1-based; 0 when there is none
Find(s, t, from) == Least({i \in from..Len(s) : MatchAt(s, t, i)})

\* t in s
Contains(s, t) == Find(s, t, 1) # 0

RECURSIVE SplitAt(_, _, _, _)
\* s.split(t): cut at the occurrences of t found left to right, each search
\* starting after the previous occurrence; i is the next occurrence at or
\* after from
SplitAt(s, t, from, i) ==
    IF i = 0 THEN <<SubSeq(s, from, Len(s))>>
    ELSE <<SubSeq(s, from, i - 1)>>
         \o SplitAt(s, t, i + Len(t), Find(s, t, i + Len(t)))

Split(s, t) == SplitAt(s, t, 1, Find(s, t, 1))

\* s.rfind(c) for one character, 1-based; 0 when there is none
RFindChar(s, c) == Greatest({i \in 1..Len(s) : s[i] = c})

\* os.path.splitext(p)[0] of a name without directory part: cut at the last
\* dot (at position dot), unless only dots precede it
SplitextRootAt(p, dot) ==
    IF dot > 0 /\ \E k \in 1..(dot - 1) : p[k] # "."
        THEN SubSeq(p, 1, dot - 1)
        ELSE p

SplitextRoot(p) == SplitextRootAt(p, RFindChar(p, "."))

\* os.path.join(dir, name): a path is the pair of its directory and its name
Join(dir, name) == <<dir, name>>

(***************************************************************************)
(* Automatic mode parameters.                                              *)
(***************************************************************************)
a_tag == <<"_", "2", "0", "1", "8", "_">>

b_tag == <<"_", "2", "0", "2", "0", "_">>

out_tag == <<"_", "2", "0", "1", "8", "-", "2", "0", "2", "0", "_">>

global_default_classes ==
    << <<"added building", "green">>, <<"removed building", "red">>,
       <<"uncertain", "orange">> >>

global_a_dir == "A"

global_b_dir == "B"

global_out_dir == "OUT"

global_temp_dir == "temp"

pickle_ext == <<".", "p", "i", "c", "k", "l", "e">>

RECURSIVE GlueTagged(_, _, _)
\* auto_load, the loop over a_f_split[1:]: target_name += a + a_tag
GlueTagged(acc, a_f_split, k) ==
    IF k > Len(a_f_split) THEN acc
    ELSE GlueTagged(acc \o a_f_split[k] \o a_tag, a_f_split, k + 1)

\* s[:-n]
DropLast(s, n) == SubSeq(s, 1, Len(s) - n)

\* a variant of target_name that keeps the a_tag the loop adds last, without
\* [:-len(a_tag)]
target_name_unstripped(a_f_split) ==
    IF Len(a_f_split) = 2
        THEN a_f_split[1] \o b_tag \o a_f_split[2]
        ELSE GlueTagged(a_f_split[1] \o b_tag, a_f_split, 2)

\* auto_load, target_name from a_f_split = a_f.split(a_tag)
target_name_of(a_f_split) ==
    IF Len(a_f_split) = 2
        THEN a_f_split[1] \o b_tag \o a_f_split[2]
        ELSE DropLast(GlueTagged(a_f_split[1] \o b_tag, a_f_split, 2), Len(a_tag))

\* auto_load, the name of the target image of reference a_f
target_name(a_f) == target_name_of(Split(a_f, a_tag))

\* auto_load, out_name before its extension is replaced, from a_f_split and
\* t_split = target_name.split(b_tag)
out_name_of(a_f_split, t_split) ==
    IF Len(a_f_split) = 2
        THEN a_f_split[1] \o out_tag \o a_f_split[2]
        ELSE t_split[1] \o out_tag \o t_split[2]

\* auto_load, the name of the result file of reference a_f
out_name(a_f) ==
    SplitextRoot(out_name_of(Split(a_f, a_tag), Split(target_name(a_f), b_tag)))
        \o pickle_ext

(***************************************************************************)
(* numpy float64 values, as exact fractions <<"fin", n, d>> (d > 0) or one *)
(* of inf, -inf, nan.  An np.int64 divided by zero is inf, -inf or nan     *)
(* with a warning, not an exception.                                       *)
(***************************************************************************)
Fin(n, d) == IF d < 0 THEN <<"fin", -n, -d>> ELSE <<"fin", n, d>>

PosInf == <<"inf">>

NegInf == <<"-inf">>

NaN == <<"nan">>

IsFin(f) == f[1] = "fin"

\* np.int64 a / int b
TrueDivide(a, b) ==
    IF b # 0 THEN Fin(a, b)
    ELSE IF a > 0 THEN PosInf
    ELSE IF a < 0 THEN NegInf
    ELSE NaN

\* int k * float f
Times(k, f) ==
    IF IsFin(f) THEN Fin(k * f[2], f[3])
    ELSE IF f = NaN \/ k = 0 THEN NaN
    ELSE IF (k > 0) = (f = PosInf) THEN PosInf
    ELSE NegInf

\* int k + float f
Plus(k, f) == IF IsFin(f) THEN Fin(k * f[3] + f[2], f[3]) ELSE f

\* the integer part of a finite float, rounded towards zero
Trunc(f) ==
    IF f[2] >= 0 THEN f[2] \div f[3] ELSE -((-f[2]) \div f[3])

\* storing float f into an element of an int64 array: int(f)
StoreInt(f) ==
    IF IsFin(f) THEN [raised |-> "", value |-> Trunc(f)]
    ELSE IF f = NaN THEN [raised |-> "ValueError", value |-> 0]
    ELSE [raised |-> "OverflowError", value |-> 0]

\* float f <= float g, both finite
Leq(f, g) == f[2] * g[3] <= g[2] * f[3]

\* float f == int n
EqualsInt(f, n) == IsFin(f) /\ f[2] = n * f[3]

\* a variant of lin_trans that takes the old range to start at 0
lin_trans_from_zero(val, old_min, old_max, new_min, new_max) ==
    Plus(new_min, Times(new_max - new_min, TrueDivide(val, old_max)))

\* get_scaled_polygons.lin_trans
lin_trans(val, old_min, old_max, new_min, new_max) ==
    Plus(new_min, Times(new_max - new_min,
                        TrueDivide(val - old_min, old_max - old_min)))

\* get_scaled_polygons, one point of a polygon once both coordinates were
\* computed: x is stored first, then y
store_point(x, y) ==
    IF x.raised # "" THEN [raised |-> x.raised, value |-> <<>>]
    ELSE IF y.raised # "" THEN [raised |-> y.raised, value |-> <<>>]
    ELSE [raised |-> "", value |-> <<x.value, y.value>>]

\* a variant of get_scaled_polygons that scales both coordinates of a point to
\* the width of the image
scale_point_to_width(point, panel_width, panel_height, image_width, image_height) ==
    store_point(StoreInt(lin_trans(point[1], 0, panel_width, 0, image_width)),
                StoreInt(lin_trans(point[2], 0, panel_height, 0, image_width)))

\* get_scaled_polygons, one point of a polygon
scale_point(point, panel_width, panel_height, image_width, image_height) ==
    store_point(StoreInt(lin_trans(point[1], 0, panel_width, 0, image_width)),
                StoreInt(lin_trans(point[2], 0, panel_height, 0, image_height)))

\* the positions <<p, k>> of the points of the polygons, in the order of the
\* loops of get_scaled_polygons
PointsOf(polygons) ==
    UNION {{<<p, k>> : k \in 1..Len(polygons[p])} : p \in 1..Len(polygons)}

FirstPoint(S) ==
    CHOOSE pk \in S : \A o \in S : pk[1] < o[1] \/ (pk[1] = o[1] /\ pk[2] <= o[2])

\* get_scaled_polygons for the points scaled one by one: the first point
\* that cannot be stored raises
collect_scaled(polygons, sp, bad) ==
    IF bad # {}
        THEN [raised |-> sp[FirstPoint(bad)].raised, value |-> <<>>]
        ELSE [raised |-> "",
              value |-> [p \in 1..Len(polygons) |->
                           [k \in 1..Len(polygons[p]) |-> sp[<<p, k>>].value]]]

scale_all(polygons, sp) ==
    collect_scaled(polygons, sp, {pk \in DOMAIN sp : sp[pk].raised # ""})

\* get_scaled_polygons with both panel extents already set to the smaller
square_scaled(polygons, panel_width, panel_height, image) ==
    scale_all(polygons,
              [pk \in PointsOf(polygons) |->
                  scale_point(polygons[pk[1]][pk[2]], panel_width, panel_height,
                              image[1], image[2])])

\* a variant of get_scaled_polygons without the line that sets both panel
\* extents to the smaller: each axis keeps its own
get_scaled_polygons_per_axis(polygons, r_size, image) ==
    square_scaled(polygons, r_size[1], r_size[2], image)

\* get_scaled_polygons: r_size is <<width, height>> of the panel, image the
\* <<width, height>> of QPixmap(path_B)
get_scaled_polygons(polygons, r_size, image) ==
    square_scaled(polygons, Min(r_size[1], r_size[2]), Min(r_size[1], r_size[2]),
                  image)

(***************************************************************************)
(* The files the tool works on.  Names are the model's; none ends in .tif  *)
(* or .tiff, so select_image never converts an image to a temporary png.   *)
(***************************************************************************)
png == <<".", "p", "n", "g">>

\* reference images, their targets and their results
RefNames == {<<c>> \o a_tag \o png : c \in {"p", "q"}}

TargetNames == {<<c>> \o b_tag \o png : c \in {"p", "q"}}

ResultNames == {<<c>> \o out_tag \o pickle_ext : c \in {"p", "q"}}

\* QPixmap(path).width(), .height(): the images of the model
QPixmapSize(path) ==
    IF path = EmptyStr THEN <<0, 0>>
    ELSE IF path[2][1] = "p" THEN <<8, 6>>
    ELSE <<6, 6>>

temp_results == Join(global_temp_dir, <<"t">> \o png)

\* what pickle.load gives back: the str or the list that was dumped
PyStr(s) == <<"str", s>>

PyList(l) == <<"list", l>>

skipped_by_annotator == PyStr("skipped by annotator")

(***************************************************************************)
(* FlickerTag_GUI.  g is the window (its fields and its panel disp_C),     *)
(* out the names in the result directory.  The tool reads a result file    *)
(* only in the handler that has just written it, so the content of a file  *)
(* is kept with what the handler returns: the window, the directory, the   *)
(* exception it lets escape ("" when none) and the file it dumped, as      *)
(* <<path, value>> (<<>> when none).                                       *)
(***************************************************************************)
Return(g, out) == [gui |-> g, out |-> out, raised |-> "", dumped |-> <<>>]

Raise(g, out, exc) == [gui |-> g, out |-> out, raised |-> exc, dumped |-> <<>>]

\* __init__, before the initial click on 'Load next' of the automatic mode
NewGUI(diff_classes, automatic_mode) ==
    [auto_mode |-> automatic_mode,
     path_A |-> EmptyStr,
     path_B |-> EmptyStr,
     path_OUT |-> EmptyStr,
     disp_C |-> NewPanel(diff_classes[1][1]),
     message_box |-> ""]

\* update_message_box: of the text of the box the model keeps the line the
\* running handler added last ("" while it has added none)
update_message_box(g, new_message) == [g EXCEPT !.message_box = new_message]

\* reset_GUI
reset_GUI(g) ==
    update_message_box([g EXCEPT !.path_A = EmptyStr,
                                 !.path_B = EmptyStr,
                                 !.disp_C = clear(@)],
                       "Interface reset.")

\* undo
undo(g) == update_message_box([g EXCEPT !.disp_C = do_undo(@)], "Backtracked.")

\* a variant of on_combobox_changed that also gives the chosen class to the
\* polygons already committed
on_combobox_changed_retag(g, currentText) ==
    [g EXCEPT !.disp_C = [@ EXCEPT !.current_class = currentText,
                                   !.poly_class = [i \in DOMAIN @ |-> currentText]]]

\* on_combobox_changed
on_combobox_changed(g, currentText) ==
    [g EXCEPT !.disp_C = refresh_panel([@ EXCEPT !.current_class = currentText], None)]

\* select_image, with fname given or returned by the file dialog
select_image(g, a, fname) ==
    IF fname # EmptyStr
        THEN update_message_box(
                 IF a THEN [g EXCEPT !.path_A = fname,
                                     !.disp_C = refresh_panel(@, fname)]
                      ELSE [g EXCEPT !.path_B = fname,
                                     !.disp_C = refresh_panel(@, fname)],
                 IF a THEN "Reference selected." ELSE "Target selected.")
        ELSE update_message_box(g, "No image selected.")

\* a variant of the branches that looks at the result first: done whenever
\* the result exists
classify_result_first(target, out, b_files, out_listing) ==
    IF out \in out_listing THEN "done"
    ELSE IF target \in b_files THEN "to_do"
    ELSE "unknown"

\* a variant of the branches without the final else: a reference without
\* target is not counted
classify_without_else(target, out, b_files, out_listing) ==
    IF target \in b_files /\ out \notin out_listing THEN "to_do"
    ELSE IF target \in b_files THEN "done"
    ELSE "none"

\* auto_load, the branch taken for a reference file
classify(target, out, b_files, out_listing) ==
    IF target \in b_files /\ out \notin out_listing THEN "to_do"
    ELSE IF target \in b_files THEN "done"
    ELSE "unknown"

\* auto_load, the loop over a_files: every reference file with its target
\* and result names and the branch taken for it
scan_files(a_files, b_files, out_listing) ==
    [i \in 1..Len(a_files) |->
        [a_f |-> a_files[i],
         target_name |-> target_name(a_files[i]),
         out_name |-> out_name(a_files[i]),
         class |-> classify(target_name(a_files[i]), out_name(a_files[i]),
                            b_files, out_listing)]]

IsATagged(f) == Contains(f, a_tag)

\* a variant that also takes the pairs that are done into to_compare
IsPaired(r) == r.class # "unknown"

IsToDo(r) == r.class = "to_do"

\* auto_load, the listings filtered by tag and the loop
scan(a_listing, b_listing, out_listing) ==
    scan_files(SelectSeq(a_listing, IsATagged),
               {f \in b_listing : Contains(f, b_tag)}, out_listing)

\* auto_load, to_compare from the scanned files that are to do
triples(todo) ==
    [i \in 1..Len(todo) |->
        <<Join(global_a_dir, todo[i].a_f),
          Join(global_b_dir, todo[i].target_name),
          Join(global_out_dir, todo[i].out_name)>>]

to_compare(a_listing, b_listing, out_listing) ==
    triples(SelectSeq(scan(a_listing, b_listing, out_listing), IsToDo))

\* auto_load, the counters after the loop
done_count(scanned) == Cardinality({i \in DOMAIN scanned : scanned[i].class = "done"})

to_do_count(scanned) == Cardinality({i \in DOMAIN scanned : scanned[i].class = "to_do"})

unknown_count(scanned) ==
    Cardinality({i \in DOMAIN scanned : scanned[i].class = "unknown"})

\* a variant of auto_load that loads the last pair of to_compare
load_last(g, tc) ==
    IF Len(tc) = 0
        THEN reset_GUI(update_message_box(g, "No more images to compare."))
        ELSE [select_image(select_image(update_message_box(g, "TO DO"),
                                        TRUE, tc[Len(tc)][1]),
                           FALSE, tc[Len(tc)][2])
                 EXCEPT !.path_OUT = tc[Len(tc)][3]]

\* auto_load, once to_compare is known
load_first(g, tc) ==
    IF Len(tc) = 0
        THEN reset_GUI(update_message_box(g, "No more images to compare."))
        ELSE [select_image(select_image(update_message_box(g, "TO DO"),
                                        TRUE, tc[1][1]),
                           FALSE, tc[1][2])
                 EXCEPT !.path_OUT = tc[1][3]]

\* auto_load
auto_load(g, a_listing, b_listing, out) ==
    load_first(g, to_compare(a_listing, b_listing, out))

\* display_results, with results what pickle.load returns for the file just
\* written; cv2.fillPoly rejects a polygon without points
display_results(g, out, results) ==
    IF results # skipped_by_annotator
        THEN IF \E p \in 1..Len(results[2]) : Len(results[2][p][1]) = 0
                THEN Raise(g, out, "cv2.error")
                ELSE Return([g EXCEPT !.disp_C = refresh_panel(@, temp_results)], out)
        ELSE Return(g, out)

\* a variant of proc_results that resets the window after the preview in the
\* manual mode as well
after_display_with_reset(shown, a_listing, b_listing) ==
    IF shown.raised # "" THEN shown
    ELSE IF shown.gui.auto_mode
        THEN Return(auto_load(reset_GUI(shown.gui), a_listing, b_listing, shown.out),
                    shown.out)
    ELSE Return(reset_GUI(shown.gui), shown.out)

\* proc_results after display_results returned or raised
after_display(shown, a_listing, b_listing) ==
    IF shown.raised # "" THEN shown
    ELSE IF shown.gui.auto_mode
        THEN Return(auto_load(reset_GUI(shown.gui), a_listing, b_listing, shown.out),
                    shown.out)
    ELSE shown

\* proc_results from the write of the file on
write_results(g, a_listing, b_listing, out, results) ==
    [after_display(display_results(g, out \cup {g.path_OUT[2]}, results),
                   a_listing, b_listing)
        EXCEPT !.dumped = <<g.path_OUT, results>>]

\* a variant that pairs every polygon with the tag committed last,
\* polygon_class[-1]
results_list_last_tag(scaled_polygons, polygon_class) ==
    PyList([p \in 1..Len(scaled_polygons) |->
               <<scaled_polygons[p], polygon_class[Len(polygon_class)]>>])

\* proc_results, the list dumped for the scaled polygons
results_list(scaled_polygons, polygon_class) ==
    PyList([p \in 1..Len(scaled_polygons) |-> <<scaled_polygons[p], polygon_class[p]>>])

\* proc_results, the save branch once the polygons were scaled
save_scaled(h, a_listing, b_listing, out, scaled, polygon_class) ==
    IF scaled.raised # ""
        THEN Raise(h, out, scaled.raised)
        ELSE write_results(update_message_box(h, " - Saved with polygons."),
                           a_listing, b_listing, out,
                           results_list(scaled.value, polygon_class))

\* proc_results, the save branch given what get_polygons returned
save_polygons(h, a_listing, b_listing, out, got) ==
    save_scaled(h, a_listing, b_listing, out,
                get_scaled_polygons(got[1], got[2], QPixmapSize(h.path_B)), got[3])

\* a variant of proc_results without the test of path_B
process_without_target(h, a_listing, b_listing, out, r_size, skipped) ==
    IF h.path_OUT # EmptyStr
        THEN IF skipped
                THEN write_results(h, a_listing, b_listing, out, skipped_by_annotator)
                ELSE save_polygons(h, a_listing, b_listing, out,
                                   get_polygons(h.disp_C, r_size))
    ELSE Return(h, out)

\* proc_results once path_OUT is set
process(h, a_listing, b_listing, out, r_size, skipped) ==
    IF h.path_B = EmptyStr
        THEN Return(update_message_box(h, "WARNING!\nNo target selected!"), out)
    ELSE IF h.path_OUT # EmptyStr
        THEN IF skipped
                THEN write_results(h, a_listing, b_listing, out, skipped_by_annotator)
                ELSE save_polygons(h, a_listing, b_listing, out,
                                   get_polygons(h.disp_C, r_size))
    ELSE Return(h, out)

\* proc_results; fname is what the save dialog of the manual mode returns
proc_results(g, a_listing, b_listing, out, r_size, skipped, fname) ==
    process(IF ~g.auto_mode THEN [g EXCEPT !.path_OUT = fname] ELSE g,
            a_listing, b_listing, out, r_size, skipped)

(***************************************************************************)
(* The class CustomPolygonDrawPanel itself.  poly_collection,              *)
(* candidate_poly_points, poly_class and current_back are attributes of    *)
(* the class; __init__ sets none of them, so self.attr is the attribute of *)
(* the class until an assignment self.attr = ... gives the instance its    *)
(* own.  P is the process: the lists (heap), the attributes of the class   *)
(* (cls), the instances in the order constructed (inst) and the operation  *)
(* that ran last (last).  No list is freed.                                *)
(***************************************************************************)
\* the process after the import of the module: lists 1, 2, 3 are the three
\* [] of the class body
NoPanels ==
    [heap |-> << <<>>, <<>>, <<>> >>,
     cls |-> [poly_collection |-> 1, candidate_poly_points |-> 2, poly_class |-> 3,
              current_back |-> None],
     inst |-> <<>>,
     last |-> [op |-> "import", self |-> 0]]

\* self.attr for the three lists: 0 in the instance means not set (for
\* current_back <<"unset">> does)
Ref(P, self, attr) ==
    IF P.inst[self][attr] # 0 THEN P.inst[self][attr] ELSE P.cls[attr]

\* self.current_back
Back(P, self) ==
    IF P.inst[self].current_back # <<"unset">> THEN P.inst[self].current_back
    ELSE P.cls.current_back

\* what instance self shows: its candidate points, its polygons, its tags
Shown(P, self) ==
    [candidate_poly_points |-> P.heap[Ref(P, self, "candidate_poly_points")],
     poly_collection |->
         [k \in 1..Len(P.heap[Ref(P, self, "poly_collection")]) |->
             P.heap[P.heap[Ref(P, self, "poly_collection")][k]]],
     poly_class |-> P.heap[Ref(P, self, "poly_class")]]

\* CustomPolygonDrawPanel(color_dict, current_class)
init_of(P, current_class) ==
    [P EXCEPT !.inst = Append(@, [poly_collection |-> 0, candidate_poly_points |-> 0,
                                  poly_class |-> 0, current_back |-> <<"unset">>,
                                  current_class |-> current_class]),
              !.last = [op |-> "__init__", self |-> Len(P.inst) + 1]]

\* self.refresh_panel(new_back_path)
refresh_panel_of(P, self, new_back_path) ==
    IF new_back_path # None
        THEN [P EXCEPT !.inst[self].current_back = new_back_path]
        ELSE P

\* self.clear()
clear_of(P, self) ==
    [P EXCEPT !.heap = @ \o << <<>>, <<>>, <<>> >>,
              !.inst[self].poly_collection = Len(P.heap) + 1,
              !.inst[self].candidate_poly_points = Len(P.heap) + 2,
              !.inst[self].current_back = None,
              !.inst[self].poly_class = Len(P.heap) + 3]

\* do_undo before the refresh
drop_last_of(P, self) ==
    IF Len(P.heap[Ref(P, self, "candidate_poly_points")]) > 0
        THEN [P EXCEPT !.heap = Append(@, <<>>),
                       !.inst[self].candidate_poly_points = Len(P.heap) + 1]
    ELSE IF Len(P.heap[Ref(P, self, "poly_collection")]) > 0
        THEN [P EXCEPT !.heap = @ \o <<ButLast(P.heap[Ref(P, self, "poly_collection")]),
                                       ButLast(P.heap[Ref(P, self, "poly_class")])>>,
                       !.inst[self].poly_collection = Len(P.heap) + 1,
                       !.inst[self].poly_class = Len(P.heap) + 2]
    ELSE P

\* self.do_undo()
do_undo_of(P, self) ==
    refresh_panel_of(drop_last_of(P, self), self, Back(P, self))

\* self.mousePressEvent(event): the left button appends to the list
\* self.candidate_poly_points names, the right button appends that list to
\* the list self.poly_collection names and the class to the list
\* self.poly_class names, each in place, and gives the instance a new
\* candidate list
mousePressEvent_of(P, self, button, pos) ==
    IF Back(P, self) = None THEN P
    ELSE IF button = "Left"
        THEN [P EXCEPT !.heap[Ref(P, self, "candidate_poly_points")] = Append(@, pos)]
    ELSE IF button = "Right"
        THEN [P EXCEPT !.heap =
                           Append([@ EXCEPT ![Ref(P, self, "poly_collection")] =
                                                Append(@, Ref(P, self, "candidate_poly_points")),
                                            ![Ref(P, self, "poly_class")] =
                                                Append(@, P.inst[self].current_class)],
                                  <<>>),
                       !.inst[self].candidate_poly_points = Len(P.heap) + 1]
    ELSE P

(***************************************************************************)
(* The running application.                                                *)
(***************************************************************************)
VARIABLES
    gui,        \* the FlickerTag_GUI window with its panel disp_C
    out_files,  \* the names in the result directory
    a_listing,  \* os.listdir of the reference directory, in its order
    b_listing,  \* os.listdir of the target directory
    app,        \* "running", or "aborted" by an exception escaping a slot
    event,      \* history: the handler that ran last, its argument, the size
                \* of the panel it read, what it raised, the file it dumped,
                \* and how many candidate points and polygons it found
    call,       \* the arguments of a function called on its own (<<>>: none)
    returned,   \* what that call returned (<<>>: not called yet)
    panels      \* the class CustomPolygonDrawPanel with its instances, for
                \* panels constructed one after another in one process

vars == <<gui, out_files, a_listing, b_listing, app, event, call, returned, panels>>

\* disp_C.rect().size() as <<width, height>>: the sizes the layout gives the
\* panel; a handler reads the size the panel has when it runs
PanelSizes == {<<0, 0>>, <<4, 3>>, <<4, 4>>}

\* where the annotator clicks for the point after n candidate points
ClickPos(n) == <<(2 * n + 1) % 4, (n + 2) % 3>>

\* the classes the annotator chooses among
Classes == {global_default_classes[1][1], global_default_classes[2][1]}

\* the files the dialogs of the manual mode return
DialogName == "p"

\* the directories the automatic mode starts on: both references in either
\* order, with both targets and no result, or one result already there, or
\* one target missing
Init ==
    /\ \E automatic_mode \in BOOLEAN :
           LET g == NewGUI(global_default_classes, automatic_mode)
           IN  /\ a_listing \in IF automatic_mode
                                   THEN {nm \in RefNames \X RefNames : nm[1] # nm[2]}
                                   ELSE {<<>>}
               /\ \E missing \in SUBSET TargetNames, done \in SUBSET ResultNames :
                      /\ Cardinality(missing) + Cardinality(done) <= 1
                      /\ automatic_mode \/ (missing = {} /\ done = {})
                      /\ b_listing = IF automatic_mode THEN TargetNames \ missing ELSE {}
                      /\ out_files = done
               /\ gui = IF automatic_mode
                           THEN auto_load(update_message_box(g, "Automatic mode active!"),
                                          a_listing, b_listing, out_files)
                           ELSE g
    /\ app = "running"
    /\ event = [handler |-> "__init__", arg |-> "", r_size |-> <<>>, raised |-> "",
                dumped |-> <<>>, cand_before |-> 0, polys_before |-> 0]
    /\ call = <<>>
    /\ returned = <<>>
    /\ panels = NoPanels

\* a handler ran to its end, or let an exception escape: PyQt then prints
\* the traceback and either goes on or aborts, depending on its version
Slot(handler, arg, r_size, res) ==
    /\ gui' = res.gui
    /\ out_files' = res.out
    /\ event' = [handler |-> handler, arg |-> arg, r_size |-> r_size,
                 raised |-> res.raised, dumped |-> res.dumped,
                 cand_before |-> Len(Candidate(gui.disp_C)),
                 polys_before |-> Len(gui.disp_C.poly_collection)]
    /\ IF res.raised = "" THEN app' = "running" ELSE app' \in {"running", "aborted"}
    /\ UNCHANGED <<a_listing, b_listing, panels>>

\* a handler of the running application
Handled(handler, arg, r_size, res) ==
    /\ Slot(handler, arg, r_size, res)
    /\ UNCHANGED <<call, returned>>

\* the points on the panel, candidate and committed
RECURSIVE NPointsUpTo(_, _)
NPointsUpTo(d, k) == IF k = 0 THEN 0 ELSE Len(d.heap[k]) + NPointsUpTo(d, k - 1)

NPoints(d) == NPointsUpTo(d, Len(d.heap))

\* the window as a handler finds it: it has added no line to the box yet
Window == [gui EXCEPT !.message_box = ""]

\* a mouse button pressed on the panel
MousePress ==
    /\ app = "running"
    /\ \E button \in {"Left", "Right"} :
       LET pos == ClickPos(Len(Candidate(gui.disp_C)))
       IN  /\ \E r_size \in PanelSizes : pos[1] < r_size[1] /\ pos[2] < r_size[2]
           /\ button = "Left" => /\ Len(Candidate(gui.disp_C)) < MaxCand
                                 /\ NPoints(gui.disp_C) < MaxPoints
           /\ button = "Right" => Len(gui.disp_C.poly_collection) < MaxPolys
           /\ Handled("mousePressEvent", button, <<>>,
                      Return([Window EXCEPT !.disp_C = mousePressEvent(@, button, pos)],
                             out_files))

\* the Undo button
Undo ==
    /\ app = "running"
    /\ Handled("undo", "", <<>>, Return(undo(Window), out_files))

\* another class chosen in the combobox
ComboboxChanged ==
    /\ app = "running"
    /\ \E c \in Classes \ {gui.disp_C.current_class} :
        Handled("on_combobox_changed", c, <<>>, Return(on_combobox_changed(Window, c), out_files))

\* the Reset button of the manual mode
Reset ==
    /\ app = "running"
    /\ ~gui.auto_mode
    /\ Handled("reset_GUI", "", <<>>, Return(reset_GUI(Window), out_files))

\* the 'Load next' button of the automatic mode
LoadNext ==
    /\ app = "running"
    /\ gui.auto_mode
    /\ Handled("auto_load", "", <<>>,
               Return(auto_load(Window, a_listing, b_listing, out_files), out_files))

\* the 'Select reference image' and 'Select target image' buttons, disabled
\* in the automatic mode; the dialog returns a file or '' when cancelled
SelectImage ==
    /\ app = "running"
    /\ ~gui.auto_mode
    /\ \E a \in BOOLEAN :
       \E fname \in {EmptyStr,
                     IF a THEN Join(global_a_dir, <<DialogName>> \o a_tag \o png)
                          ELSE Join(global_b_dir, <<DialogName>> \o b_tag \o png)} :
        Handled("select_image", IF a THEN "A" ELSE "B", <<>>,
                Return(select_image(Window, a, fname), out_files))

\* the Save and Skip buttons; in the manual mode the save dialog returns a
\* path or '' when cancelled
ProcResults ==
    /\ app = "running"
    /\ \E skipped \in BOOLEAN, r_size \in PanelSizes :
       \E fname \in IF gui.auto_mode THEN {EmptyStr}
                    ELSE {EmptyStr,
                          Join(global_out_dir, <<DialogName>> \o out_tag \o pickle_ext)} :
        Handled("proc_results", IF skipped THEN "Skip" ELSE "Save", r_size,
                proc_results(Window, a_listing, b_listing, out_files, r_size, skipped, fname))

Next ==
    \/ MousePress
    \/ Undo
    \/ ComboboxChanged
    \/ Reset
    \/ LoadNext
    \/ SelectImage
    \/ ProcResults

Spec == Init /\ [][Next]_vars

(***************************************************************************)
(* The scaling functions called on their own.  The window does not take    *)
(* part: it stays as constructed in the manual mode.                       *)
(***************************************************************************)
Idle ==
    /\ panels = NoPanels
    /\ gui = NewGUI(global_default_classes, FALSE)
    /\ out_files = {}
    /\ a_listing = <<>>
    /\ b_listing = {}
    /\ app = "running"
    /\ event = [handler |-> "__init__", arg |-> "", r_size |-> <<>>, raised |-> "",
                dumped |-> <<>>, cand_before |-> 0, polys_before |-> 0]

\* the integers lin_trans is called on
Extents == (-MaxExt)..MaxExt

\* lin_trans on two values v1 < v2 and on both ends of the old range, for
\* old_min < old_max and new_min < new_max
InitLin ==
    /\ Idle
    /\ \E v1 \in Extents, v2 \in Extents, old_min \in Extents, old_max \in Extents,
          new_min \in Extents, new_max \in Extents :
           /\ v1 < v2
           /\ old_min < old_max
           /\ new_min < new_max
           /\ call = [v1 |-> v1, v2 |-> v2, old_min |-> old_min, old_max |-> old_max,
                      new_min |-> new_min, new_max |-> new_max]
    /\ returned = <<>>

\* the floats lin_trans returns, and the integers they are stored as
CallLinTrans ==
    /\ returned = <<>>
    /\ returned' =
           [f |-> [v \in {"v1", "v2", "old_min", "old_max"} |->
                      lin_trans(call[v], call.old_min, call.old_max,
                                call.new_min, call.new_max)],
            stored |-> [v \in {"v1", "v2", "old_min", "old_max"} |->
                           StoreInt(lin_trans(call[v], call.old_min, call.old_max,
                                              call.new_min, call.new_max))]]
    /\ UNCHANGED <<gui, out_files, a_listing, b_listing, app, event, call, panels>>

SpecLin == InitLin /\ [][CallLinTrans]_vars

\* positions of the mouse on a panel, and sizes of the panel
PanelCoords == 0..MaxExt

\* widths and heights of target images
ImageExtents == 0..(2 * MaxExt)

\* a 400x400 panel, an 800x600 target image and the committed point (10,10)
Panel400Image800x600 ==
    [polygons |-> << << <<10, 10>> >> >>,
     r_size |-> <<400, 400>>,
     image |-> <<800, 600>>]

\* get_scaled_polygons on one polygon of one point, or on a polygon without
\* points followed by one of two points
InitExport ==
    /\ Idle
    /\ \/ \E x \in PanelCoords, y \in PanelCoords, w \in PanelCoords, h \in PanelCoords,
             image_width \in ImageExtents, image_height \in ImageExtents :
           \E polygons \in {<< <<<<x, y>>>> >>, << <<>>, <<<<y, x>>, <<x, y>>>> >>} :
               call = [polygons |-> polygons, r_size |-> <<w, h>>,
                       image |-> <<image_width, image_height>>]
       \/ call = Panel400Image800x600
    /\ returned = <<>>

CallGetScaledPolygons ==
    /\ returned = <<>>
    /\ returned' = get_scaled_polygons(call.polygons, call.r_size, call.image)
    /\ UNCHANGED <<gui, out_files, a_listing, b_listing, app, event, call, panels>>

SpecExport == InitExport /\ [][CallGetScaledPolygons]_vars

(***************************************************************************)
(* auto_load on its own: the first load of the automatic mode, for every   *)
(* content of the three directories over a few names.                      *)
(***************************************************************************)
\* names a reference directory may hold: two tagged references, one with
\* the tag twice and a file without tag
ScanRefs == RefNames \cup {<<"s">> \o a_tag \o a_tag \o png, <<"r">> \o png}

\* names a target directory may hold
ScanTargets == TargetNames \cup {<<"s">> \o b_tag \o a_tag \o png, <<"r">> \o png}

\* names a result directory may hold
ScanResults == ResultNames \cup {<<"s">> \o out_tag \o a_tag \o pickle_ext}

\* os.listdir of a directory: its names, each once, in any order
Listings(names) ==
    {l \in UNION {[1..n -> names] : n \in 0..Cardinality(names)} :
        \A i \in DOMAIN l : \A j \in DOMAIN l : l[i] = l[j] => i = j}

InitScan ==
    /\ a_listing \in Listings(ScanRefs)
    /\ b_listing \in SUBSET ScanTargets
    /\ out_files \in SUBSET ScanResults
    /\ gui = update_message_box(NewGUI(global_default_classes, TRUE),
                                "Automatic mode active!")
    /\ app = "running"
    /\ event = [handler |-> "__init__", arg |-> "", r_size |-> <<>>, raised |-> "",
                dumped |-> <<>>, cand_before |-> 0, polys_before |-> 0]
    /\ call = <<>>
    /\ returned = <<>>
    /\ panels = NoPanels

\* the click on 'Load next' that ends __init__; returned keeps the locals of
\* auto_load
FirstLoad ==
    /\ returned = <<>>
    /\ returned' = [scanned |-> scan(a_listing, b_listing, out_files),
                    done_count |-> done_count(scan(a_listing, b_listing, out_files)),
                    to_do_count |-> to_do_count(scan(a_listing, b_listing, out_files)),
                    unknown_count |->
                        unknown_count(scan(a_listing, b_listing, out_files)),
                    to_compare |-> to_compare(a_listing, b_listing, out_files)]
    /\ Slot("auto_load", "", <<>>,
            Return(auto_load(Window, a_listing, b_listing, out_files), out_files))
    /\ UNCHANGED call

SpecScan == InitScan /\ [][FirstLoad]_vars

\* the condition of auto_load's first branch for the i-th name of the
\* reference listing
PendingAt(i) ==
    /\ Contains(a_listing[i], a_tag)
    /\ target_name(a_listing[i]) \in b_listing
    /\ out_name(a_listing[i]) \notin out_files

(***************************************************************************)
(* The names auto_load derives, on their own, for every reference name     *)
(* made of a few pieces and containing a_tag.                              *)
(***************************************************************************)
NamePieces == {a_tag, b_tag, <<"p">>, png}

RECURSIVE Concat(_)
\* ''.join(pieces)
Concat(pieces) == IF pieces = <<>> THEN <<>> ELSE Head(pieces) \o Concat(Tail(pieces))

\* the reference names of 1..MaxPieces pieces that contain a_tag
TaggedNames ==
    {n \in {Concat(ps) : ps \in UNION {[1..k -> NamePieces] : k \in 1..MaxPieces}} :
        Contains(n, a_tag)}

InitNames ==
    /\ Idle
    /\ \E a_f \in TaggedNames : call = [a_f |-> a_f]
    /\ returned = <<>>

\* target_name and out_name as the body of auto_load's loop computes them
DeriveNames ==
    /\ returned = <<>>
    /\ returned' = [target_name |-> target_name(call.a_f),
                    out_name |-> out_name(call.a_f)]
    /\ UNCHANGED <<gui, out_files, a_listing, b_listing, app, event, call, panels>>

SpecNames == InitNames /\ [][DeriveNames]_vars

\* name s with its first a_tag replaced by tag
ReplaceFirstATag(s, tag) ==
    SubSeq(s, 1, Find(s, a_tag, 1) - 1) \o tag
        \o SubSeq(s, Find(s, a_tag, 1) + Len(a_tag), Len(s))

(***************************************************************************)
(* Properties of the polygon draw panel, under Spec.                       *)
(***************************************************************************)

\* C1: in every reachable state poly_collection and poly_class have the same
\* length, and the tag at index i is the class that was current when polygon
\* i was committed: a step that commits a polygon appends the class current
\* before the step, and every other step keeps the tags (and the polygons
\* they belong to) that remain, index by index.
C1_TagsFollowPolygons ==
    /\ [](Len(gui.disp_C.poly_collection) = Len(gui.disp_C.poly_class))
    /\ [][IF Len(gui'.disp_C.poly_class) > Len(gui.disp_C.poly_class)
             THEN /\ gui'.disp_C.poly_class =
                         Append(gui.disp_C.poly_class, gui.disp_C.current_class)
                  /\ SubSeq(Polygons(gui'.disp_C), 1, Len(gui.disp_C.poly_class)) =
                         Polygons(gui.disp_C)
             ELSE /\ gui'.disp_C.poly_class =
                         SubSeq(gui.disp_C.poly_class, 1, Len(gui'.disp_C.poly_class))
                  /\ Polygons(gui'.disp_C) =
                         SubSeq(Polygons(gui.disp_C), 1, Len(gui'.disp_C.poly_class))]_vars

\* two polygons committed under different classes, and the class changed
\* again after the second
C1_Witness ==
    /\ Len(gui.disp_C.poly_class) = 2
    /\ gui.disp_C.poly_class[1] # gui.disp_C.poly_class[2]
    /\ gui.disp_C.current_class # gui.disp_C.poly_class[2]
    /\ event.handler = "on_combobox_changed"

\* C2: undo with a non-empty candidate list empties the candidate list and
\* leaves the committed polygons and their tags as they were.
C2_UndoDropsCandidateOnly ==
    [][(event'.handler = "undo" /\ Len(Candidate(gui.disp_C)) > 0)
          => /\ Candidate(gui'.disp_C) = <<>>
             /\ Polygons(gui'.disp_C) = Polygons(gui.disp_C)
             /\ gui'.disp_C.poly_class = gui.disp_C.poly_class]_vars

\* undo found candidate points and a committed polygon with a point
C2_Witness ==
    /\ event.handler = "undo"
    /\ event.cand_before > 0
    /\ event.polys_before > 0
    /\ Len(gui.disp_C.poly_collection) = event.polys_before
    /\ Len(Polygons(gui.disp_C)[1]) > 0

\* C3: undo with an empty candidate list and N >= 1 polygons leaves the first
\* N-1 polygons with the first N-1 tags; with no candidate point and no
\* polygon it leaves the panel as it was.
C3_UndoDropsLastPolygon ==
    [][(event'.handler = "undo" /\ Len(Candidate(gui.disp_C)) = 0)
          => IF Len(gui.disp_C.poly_collection) >= 1
                THEN /\ Polygons(gui'.disp_C) = ButLast(Polygons(gui.disp_C))
                     /\ gui'.disp_C.poly_class = ButLast(gui.disp_C.poly_class)
                     /\ Candidate(gui'.disp_C) = <<>>
                ELSE gui'.disp_C = gui.disp_C]_vars

\* undo found no candidate point and two polygons, and left the first, which
\* has a point
C3_Witness ==
    /\ event.handler = "undo"
    /\ event.cand_before = 0
    /\ event.polys_before = 2
    /\ Len(gui.disp_C.poly_collection) = 1
    /\ Len(Polygons(gui.disp_C)[1]) > 0

\* C4: with a background image, the right button appends the candidate
\* points, in their order, as the new last polygon, tagged with the current
\* class, and leaves the candidate list empty; get_polygons then returns
\* that polygon with those points and that tag.
C4_CommitAppendsCandidate ==
    [][(/\ event'.handler = "mousePressEvent"
        /\ event'.arg = "Right"
        /\ gui.disp_C.current_back # None)
          => /\ Polygons(gui'.disp_C) =
                    Append(Polygons(gui.disp_C), Candidate(gui.disp_C))
             /\ gui'.disp_C.poly_class =
                    Append(gui.disp_C.poly_class, gui.disp_C.current_class)
             /\ Candidate(gui'.disp_C) = <<>>
             /\ \A r_size \in PanelSizes :
                    /\ get_polygons(gui'.disp_C, r_size)[1]
                           [Len(gui.disp_C.poly_collection) + 1] = Candidate(gui.disp_C)
                    /\ get_polygons(gui'.disp_C, r_size)[3]
                           [Len(gui.disp_C.poly_collection) + 1] = gui.disp_C.current_class]_vars

\* the right button committed two candidate points, in the order clicked
C4_Witness ==
    /\ event.handler = "mousePressEvent"
    /\ event.arg = "Right"
    /\ event.cand_before = 2
    /\ Len(gui.disp_C.poly_collection) = event.polys_before + 1
    /\ Polygons(gui.disp_C)[Len(gui.disp_C.poly_collection)] = <<ClickPos(0), ClickPos(1)>>

\* C5: a committed polygon is immutable.  The candidate list is never one of
\* the committed lists; a mouse press or a change of class keeps every
\* committed polygon and its tag; and a polygon leaves poly_collection only
\* as the last one, by undo, or with all the others, by a handler that
\* resets the window.
C5_CommittedPolygonsImmutable ==
    /\ [](\A i \in 1..Len(gui.disp_C.poly_collection) :
              gui.disp_C.poly_collection[i] # gui.disp_C.candidate_poly_points)
    /\ [][/\ event'.handler \in {"mousePressEvent", "on_combobox_changed"}
               => /\ Len(gui'.disp_C.poly_collection) >= Len(gui.disp_C.poly_collection)
                  /\ \A i \in 1..Len(gui.disp_C.poly_collection) :
                         /\ Polygons(gui'.disp_C)[i] = Polygons(gui.disp_C)[i]
                         /\ gui'.disp_C.poly_class[i] = gui.disp_C.poly_class[i]
          /\ (\E i \in 1..Len(gui.disp_C.poly_collection) :
                  \/ i > Len(gui'.disp_C.poly_collection)
                  \/ Polygons(gui'.disp_C)[i] # Polygons(gui.disp_C)[i]
                  \/ gui'.disp_C.poly_class[i] # gui.disp_C.poly_class[i])
               => \/ /\ event'.handler = "undo"
                     /\ Polygons(gui'.disp_C) = ButLast(Polygons(gui.disp_C))
                     /\ gui'.disp_C.poly_class = ButLast(gui.disp_C.poly_class)
                  \/ /\ event'.handler \in {"reset_GUI", "auto_load", "proc_results"}
                     /\ gui'.disp_C.poly_collection = <<>>]_vars

\* a point was added to the candidate list while a polygon with a point was
\* committed
C5_Witness ==
    /\ event.handler = "mousePressEvent"
    /\ event.arg = "Left"
    /\ event.polys_before >= 1
    /\ Len(Candidate(gui.disp_C)) = event.cand_before + 1
    /\ Len(Polygons(gui.disp_C)[1]) > 0

\* C6 (as stated; the 'Load next' button breaks it): after auto_load, after
\* reset_GUI, and after a save or skip of the automatic mode that wrote its
\* file and went on to the next pair, the panel has no candidate point and
\* no committed polygon.
C6_LoadLeavesPanelEmpty ==
    (\/ event.handler \in {"auto_load", "reset_GUI"}
     \/ /\ event.handler = "proc_results"
        /\ gui.auto_mode
        /\ event.dumped # <<>>
        /\ event.raised = "")
        => /\ Candidate(gui.disp_C) = <<>>
           /\ gui.disp_C.poly_collection = <<>>

\* C10 (as stated; the code has no such guard): a save with a panel of size
\* zero and a committed point, with a target and a result path set, lets no
\* exception escape, reports the failure in the message box and writes no
\* file.
C10_ZeroPanelSaveGuarded ==
    [][(/\ event'.handler = "proc_results"
        /\ event'.arg = "Save"
        /\ Min(event'.r_size[1], event'.r_size[2]) = 0
        /\ \E i \in 1..Len(gui.disp_C.poly_collection) : Len(Polygons(gui.disp_C)[i]) > 0
        /\ gui.path_B # EmptyStr
        /\ IF gui.auto_mode THEN gui.path_OUT # EmptyStr ELSE gui'.path_OUT # EmptyStr)
          => /\ event'.raised = ""
             /\ event'.dumped = <<>>
             /\ gui'.message_box \notin {"", " - Saved with polygons."}]_vars

(***************************************************************************)
(* Properties of the scaling, under SpecExport and SpecLin.                *)
(***************************************************************************)

C8_LinTransEndsAndOrder ==
    returned # <<>>
        => /\ EqualsInt(returned.f.old_min, call.new_min)
           /\ EqualsInt(returned.f.old_max, call.new_max)
           /\ returned.stored.old_min = [raised |-> "", value |-> call.new_min]
           /\ returned.stored.old_max = [raised |-> "", value |-> call.new_max]
           /\ IsFin(returned.f.v1) /\ IsFin(returned.f.v2)
           /\ Leq(returned.f.v1, returned.f.v2)
           /\ returned.stored.v1.raised = "" /\ returned.stored.v2.raised = ""
           /\ returned.stored.v1.value <= returned.stored.v2.value

\* two values outside the old range, the first mapped to a negative float
\* that is no integer, the second to a greater float, both stored as the
\* same integer
C8_Witness ==
    /\ returned # <<>>
    /\ call.v1 < call.old_min
    /\ returned.f.v1[2] < 0
    /\ returned.f.v1[2] % returned.f.v1[3] # 0
    /\ ~Leq(returned.f.v2, returned.f.v1)
    /\ returned.stored.v1.value = returned.stored.v2.value

\* C9 (amended): for every panel size <<w, h>> with m = min(w, h) > 0 and
\* every committed point <<x, y>> (x, y >= 0), the exported point is
\* lin_trans(x, 0, m, 0, image_width), lin_trans(y, 0, m, 0, image_height)
\* with each coordinate cut to its integer part, the same m on both axes.
C9_ExportUsesSmallerExtent ==
    (returned # <<>> /\ Min(call.r_size[1], call.r_size[2]) > 0)
        => /\ returned.raised = ""
           /\ Len(returned.value) = Len(call.polygons)
           /\ \A p \in 1..Len(call.polygons) :
                  /\ Len(returned.value[p]) = Len(call.polygons[p])
                  /\ \A k \in 1..Len(call.polygons[p]) :
                         returned.value[p][k] =
                             <<(call.image[1] * call.polygons[p][k][1])
                                   \div Min(call.r_size[1], call.r_size[2]),
                               (call.image[2] * call.polygons[p][k][2])
                                   \div Min(call.r_size[1], call.r_size[2])>>

\* a panel wider than high, and a point whose exact image coordinates are no
\* integers
C9_Witness ==
    /\ returned # <<>>
    /\ call.r_size[1] > call.r_size[2]
    /\ call.r_size[2] > 0
    /\ Len(call.polygons) = 2
    /\ (call.image[1] * call.polygons[2][2][1]) % call.r_size[2] # 0
    /\ (call.image[2] * call.polygons[2][2][2]) % call.r_size[2] # 0
    /\ returned.raised = ""

\* C9 (as stated): the exported point is exactly
\* lin_trans(x, 0, m, 0, image_width), lin_trans(y, 0, m, 0, image_height).
C9_ExportIsExactLinTrans ==
    (returned # <<>> /\ Min(call.r_size[1], call.r_size[2]) > 0 /\ returned.raised = "")
        => \A p \in 1..Len(call.polygons) :
               \A k \in 1..Len(call.polygons[p]) :
                   /\ EqualsInt(lin_trans(call.polygons[p][k][1], 0,
                                          Min(call.r_size[1], call.r_size[2]),
                                          0, call.image[1]),
                                returned.value[p][k][1])
                   /\ EqualsInt(lin_trans(call.polygons[p][k][2], 0,
                                          Min(call.r_size[1], call.r_size[2]),
                                          0, call.image[2]),
                                returned.value[p][k][2])

(***************************************************************************)
(* Properties of the pairing of files, under SpecScan.                     *)
(***************************************************************************)

\* C11: in one scan every reference name that contains a_tag gets exactly
\* one of the classes done, to_do, unknown, and done_count + to_do_count +
\* unknown_count is the number of names of the reference listing that
\* contain a_tag.
C11_ScanPartitionsReferences ==
    returned # <<>>
        => /\ Len(returned.scanned) =
                  Cardinality({i \in DOMAIN a_listing : Contains(a_listing[i], a_tag)})
           /\ \A i \in DOMAIN returned.scanned :
                  returned.scanned[i].class \in {"done", "to_do", "unknown"}
           /\ returned.done_count + returned.to_do_count + returned.unknown_count =
                  Cardinality({i \in DOMAIN a_listing : Contains(a_listing[i], a_tag)})

\* a scan of three tagged references and a file without tag that counts one
\* reference in each class
C11_Witness ==
    /\ returned # <<>>
    /\ Len(a_listing) = 4
    /\ returned.done_count = 1
    /\ returned.to_do_count = 1
    /\ returned.unknown_count = 1

\* C12 (amended): a reference is classified done exactly when its target
\* name is in the target listing and its result name is in the result
\* listing.
C12_DoneNeedsTargetAndResult ==
    returned # <<>>
        => \A i \in DOMAIN returned.scanned :
               returned.scanned[i].class = "done"
                   <=> /\ returned.scanned[i].target_name \in b_listing
                       /\ returned.scanned[i].out_name \in out_files

\* a reference whose result exists and whose target does not: unknown
C12_Witness ==
    /\ returned # <<>>
    /\ \E i \in DOMAIN returned.scanned :
           /\ returned.scanned[i].out_name \in out_files
           /\ returned.scanned[i].target_name \notin b_listing
           /\ returned.scanned[i].class = "unknown"

\* C12 (as stated): a reference is classified done whenever its result name
\* is in the result listing, whether its target name is in the target
\* listing or not.
C12_DoneWheneverResultExists ==
    returned # <<>>
        => \A i \in DOMAIN returned.scanned :
               returned.scanned[i].out_name \in out_files
                   => returned.scanned[i].class = "done"

\* C13: a reference is to_do, and its triple of paths is in to_compare,
\* exactly when its target name is in the target listing and its result name
\* is not in the result listing; it is unknown exactly when its target name
\* is not in the target listing.
C13_PendingAndUnknown ==
    returned # <<>>
        => /\ \A i \in DOMAIN returned.scanned :
                  /\ returned.scanned[i].class = "to_do"
                         <=> /\ returned.scanned[i].target_name \in b_listing
                             /\ returned.scanned[i].out_name \notin out_files
                  /\ returned.scanned[i].class = "unknown"
                         <=> returned.scanned[i].target_name \notin b_listing
                  /\ returned.scanned[i].class = "to_do"
                         <=> \E k \in DOMAIN returned.to_compare :
                                 returned.to_compare[k] =
                                     <<Join(global_a_dir, returned.scanned[i].a_f),
                                       Join(global_b_dir, returned.scanned[i].target_name),
                                       Join(global_out_dir, returned.scanned[i].out_name)>>
           /\ Len(returned.to_compare) = returned.to_do_count

\* a scan with one reference to do, one done and one unknown
C13_Witness ==
    /\ returned # <<>>
    /\ Len(returned.to_compare) = 1
    /\ returned.done_count = 1
    /\ returned.unknown_count = 1
    /\ Len(a_listing) = 3

\* C16: to_compare keeps the order of the reference listing (its k-th
\* triple belongs to the k-th name of the listing that is to do), and when
\* it is not empty auto_load loads its first triple: path_A, path_B and
\* path_OUT are the three paths of the first name that is to do, and the
\* panel shows the target.
C16_FirstPendingLoaded ==
    returned # <<>>
        => /\ Len(returned.to_compare) =
                  Cardinality({i \in DOMAIN a_listing : PendingAt(i)})
           /\ \A k \in DOMAIN returned.to_compare :
                  returned.to_compare[k] =
                      <<Join(global_a_dir,
                             a_listing[Kth({i \in DOMAIN a_listing : PendingAt(i)}, k)]),
                        Join(global_b_dir,
                             target_name(a_listing[Kth({i \in DOMAIN a_listing :
                                                           PendingAt(i)}, k)])),
                        Join(global_out_dir,
                             out_name(a_listing[Kth({i \in DOMAIN a_listing :
                                                        PendingAt(i)}, k)]))>>
           /\ Len(returned.to_compare) > 0
                  => /\ gui.path_A = returned.to_compare[1][1]
                     /\ gui.path_B = returned.to_compare[1][2]
                     /\ gui.path_OUT = returned.to_compare[1][3]
                     /\ gui.disp_C.current_back = returned.to_compare[1][2]

\* two references to do, behind a first name of the listing that is not
\* to do; the first pair to do is loaded
C16_Witness ==
    /\ returned # <<>>
    /\ Len(returned.to_compare) = 2
    /\ ~PendingAt(1)
    /\ returned.to_compare[1] # returned.to_compare[2]
    /\ gui.path_OUT = returned.to_compare[1][3]

(***************************************************************************)
(* Properties of the derived names, under SpecNames.                       *)
(***************************************************************************)

\* C14: for every reference name that contains a_tag once or more, the
\* target name is the reference name with its first a_tag replaced by b_tag
\* and every other character kept, whether a_tag occurs once (two segments)
\* or more often (the loop).
C14_TargetReplacesFirstATag ==
    returned # <<>> => returned.target_name = ReplaceFirstATag(call.a_f, b_tag)

\* a reference name with a_tag three times and b_tag as well
C14_Witness ==
    /\ returned # <<>>
    /\ Len(Split(call.a_f, a_tag)) = 4
    /\ Contains(call.a_f, b_tag)
    /\ Len(Split(returned.target_name, a_tag)) = 3

\* C15 (as stated; the loop's branch breaks it): for every reference name
\* that contains a_tag, the result name is the reference name with its first
\* a_tag (the place of b_tag in the target name) replaced by out_tag, the
\* rest of the stem kept and the extension replaced by '.pickle', also when
\* a_tag occurs more than once or b_tag occurs elsewhere in the name.
C15_ResultReplacesFirstATag ==
    returned # <<>>
        => returned.out_name =
               SplitextRoot(ReplaceFirstATag(call.a_f, out_tag)) \o pickle_ext

(***************************************************************************)
(* Properties of saving and of the mouse without image, under Spec.        *)
(***************************************************************************)

\* C17: save or skip while path_B is '' is given up: no file is created or
\* written, the panel (candidate points, polygons, tags, background) and the
\* paths stay as they were, no exception escapes, and the last line of the
\* message box is the warning, so that in automatic mode neither reset_GUI
\* nor auto_load ran.
C17_NoTargetNoSave ==
    [][(event'.handler = "proc_results" /\ gui.path_B = EmptyStr)
          => /\ out_files' = out_files
             /\ event'.dumped = <<>>
             /\ event'.raised = ""
             /\ gui'.disp_C = gui.disp_C
             /\ gui'.path_A = gui.path_A
             /\ gui'.path_B = EmptyStr
             /\ gui.auto_mode => gui'.path_OUT = gui.path_OUT
             /\ gui'.message_box = "WARNING!\nNo target selected!"]_vars

\* a save in the manual mode with a reference but no target, a result path
\* chosen and a polygon with a point on the panel
C17_Witness ==
    /\ event.handler = "proc_results"
    /\ event.arg = "Save"
    /\ gui.path_B = EmptyStr
    /\ gui.path_OUT # EmptyStr
    /\ Len(gui.disp_C.poly_collection) > 0
    /\ Len(Polygons(gui.disp_C)[1]) > 0

\* C18 (as stated; display_results lets its exception escape): in automatic
\* mode a save whose file was written and whose preview cannot be rendered
\* (a polygon without points) still resets the panel and loads the next pair
\* to do, or nothing when none is left.
C18_PreviewFailureStillAdvances ==
    [][(/\ event'.handler = "proc_results"
        /\ event'.arg = "Save"
        /\ gui.auto_mode
        /\ event'.dumped # <<>>
        /\ \E i \in 1..Len(gui.disp_C.poly_collection) : Len(Polygons(gui.disp_C)[i]) = 0)
          => /\ gui'.disp_C.poly_collection = <<>>
             /\ Candidate(gui'.disp_C) = <<>>
             /\ \/ gui'.path_B = EmptyStr
                \/ gui'.path_OUT[2] \notin out_files']_vars

\* C19 (amended): a save in the manual mode leaves the candidate points, the
\* polygons, the tags and the current class as they were, and the list it
\* persisted is the list a save of the panel as it is now, at the same size,
\* would persist.
C19_ManualSaveReadsOnly ==
    /\ [][(event'.handler = "proc_results" /\ ~gui.auto_mode)
             => /\ Candidate(gui'.disp_C) = Candidate(gui.disp_C)
                /\ Polygons(gui'.disp_C) = Polygons(gui.disp_C)
                /\ gui'.disp_C.poly_class = gui.disp_C.poly_class
                /\ gui'.disp_C.current_class = gui.disp_C.current_class]_vars
    /\ []((/\ event.handler = "proc_results"
           /\ event.arg = "Save"
           /\ ~gui.auto_mode
           /\ event.dumped # <<>>)
             => /\ get_scaled_polygons(Polygons(gui.disp_C), event.r_size,
                                       QPixmapSize(gui.path_B)).raised = ""
                /\ event.dumped[2] =
                       results_list(get_scaled_polygons(Polygons(gui.disp_C), event.r_size,
                                                        QPixmapSize(gui.path_B)).value,
                                    gui.disp_C.poly_class))

\* a manual save that persisted a polygon with a point while a candidate
\* point was on the panel
C19_Witness ==
    /\ event.handler = "proc_results"
    /\ event.arg = "Save"
    /\ ~gui.auto_mode
    /\ event.dumped # <<>>
    /\ event.cand_before > 0
    /\ Len(Candidate(gui.disp_C)) = event.cand_before
    /\ Len(gui.disp_C.poly_collection) > 0
    /\ Len(Polygons(gui.disp_C)[1]) > 0

\* C19 (as stated): ... the list a manual save persisted is the list a
\* second save of the unchanged panel would persist, whatever size the panel
\* then has.
C19_SecondSaveSameAtAnySize ==
    (/\ event.handler = "proc_results"
     /\ event.arg = "Save"
     /\ ~gui.auto_mode
     /\ event.dumped # <<>>)
        => \A r_size \in {r \in PanelSizes : Min(r[1], r[2]) > 0} :
               event.dumped[2] =
                   results_list(get_scaled_polygons(Polygons(gui.disp_C), r_size,
                                                    QPixmapSize(gui.path_B)).value,
                                gui.disp_C.poly_class)

\* C20: while current_back is None, a left or right mouse press leaves the
\* panel (candidate points, polygons, tags) as it was and raises nothing.
C20_NoImageNoEdit ==
    [][(event'.handler = "mousePressEvent" /\ gui.disp_C.current_back = None)
          => /\ gui'.disp_C = gui.disp_C
             /\ event'.raised = ""
             /\ app' = "running"]_vars

\* the right button pressed on a panel without image
C20_Witness ==
    /\ event.handler = "mousePressEvent"
    /\ event.arg = "Right"
    /\ gui.disp_C.current_back = None
    /\ gui.disp_C.poly_collection = <<>>
    /\ gui.disp_C.poly_class = <<>>

(***************************************************************************)
(* pickle, for the values proc_results dumps: the str of a skip, or a list *)
(* of [numpy array, str] lists.  A pickle is a sequence of instructions    *)
(* <<opcode, argument>> for a stack machine, ended by STOP; the memo,      *)
(* which only shares objects met twice, is left out.  A file is            *)
(* [exists, content].                                                      *)
(***************************************************************************)
RECURSIVE Flatten(_)
\* the elements of a two-dimensional array in row-major order
Flatten(points) ==
    IF points = <<>> THEN <<>> ELSE Head(points) \o Flatten(Tail(points))

\* numpy.ndarray.__reduce__ for a scaled polygon: np.array([]) has shape
\* (0,) and dtype float64, np.array of n points shape (n, 2) and an integer
\* dtype
ndarray_reduce(points) ==
    [shape |-> IF Len(points) = 0 THEN <<0>> ELSE <<Len(points), 2>>,
     dtype |-> IF Len(points) = 0 THEN "float64" ELSE "int64",
     data |-> Flatten(points)]

\* numpy's reconstruction of the array from shape and data
ndarray_reconstruct(a) ==
    IF Len(a.shape) = 2
        THEN [i \in 1..a.shape[1] |->
                 SubSeq(a.data, (i - 1) * a.shape[2] + 1, i * a.shape[2])]
        ELSE a.data

\* pickle's batch_appends for the pickled items of a list of n elements
batch_appends(n, items) ==
    IF n = 0 THEN <<>>
    ELSE IF n = 1 THEN items \o << <<"APPEND", <<>>>> >>
    ELSE << <<"MARK", <<>>>> >> \o items \o << <<"APPENDS", <<>>>> >>

\* pickle's save of one entry [scaled_polygons[p], polygon_class[p]]
save_entry(e) ==
    << <<"EMPTY_LIST", <<>>>> >>
        \o batch_appends(2, << <<"NDARRAY", ndarray_reduce(e[1])>>, <<"BINUNICODE", e[2]>> >>)

RECURSIVE save_entries(_)
save_entries(l) ==
    IF l = <<>> THEN <<>> ELSE save_entry(Head(l)) \o save_entries(Tail(l))

\* pickle.dumps(results)
pickle_dumps(results) ==
    (IF results[1] = "str"
        THEN << <<"BINUNICODE", results[2]>> >>
        ELSE << <<"EMPTY_LIST", <<>>>> >>
                 \o batch_appends(Len(results[2]), save_entries(results[2])))
    \o << <<"STOP", <<>>>> >>

\* the unpickler's APPENDS: the objects above the topmost mark, at position
\* m, extend the list below it
load_appends(stack, m) ==
    SubSeq(stack, 1, m - 2)
        \o << <<"list", stack[m - 1][2] \o SubSeq(stack, m + 1, Len(stack))>> >>

\* the unpickler's APPEND: the top of the stack is appended to the list
\* below it
load_append(stack) ==
    SubSeq(stack, 1, Len(stack) - 2)
        \o << <<"list", Append(stack[Len(stack) - 1][2], stack[Len(stack)])>> >>

RECURSIVE Unpickle(_, _, _)
\* the unpickler's loop: instruction i of the file on the stack so far; it
\* returns the top of the stack at the first STOP
Unpickle(ops, i, stack) ==
    IF i > Len(ops) THEN <<"EOFError">>
    ELSE IF ops[i][1] = "STOP" THEN stack[Len(stack)]
    ELSE IF ops[i][1] = "BINUNICODE"
        THEN Unpickle(ops, i + 1, Append(stack, <<"str", ops[i][2]>>))
    ELSE IF ops[i][1] = "NDARRAY"
        THEN Unpickle(ops, i + 1,
                      Append(stack, <<"ndarray", ndarray_reconstruct(ops[i][2])>>))
    ELSE IF ops[i][1] = "EMPTY_LIST"
        THEN Unpickle(ops, i + 1, Append(stack, <<"list", <<>>>>))
    ELSE IF ops[i][1] = "MARK"
        THEN Unpickle(ops, i + 1, Append(stack, <<"MARK", <<>>>>))
    ELSE IF ops[i][1] = "APPENDS"
        THEN Unpickle(ops, i + 1, load_appends(stack,
                          Greatest({k \in 1..Len(stack) : stack[k][1] = "MARK"})))
    ELSE IF ops[i][1] = "APPEND"
        THEN Unpickle(ops, i + 1, load_append(stack))
    ELSE <<"UnpicklingError">>

\* the unpickled object in the form the handlers use: a str, or a list of
\* <<points, tag>>
as_results(v) ==
    IF v[1] = "list"
        THEN PyList([p \in 1..Len(v[2]) |-> <<v[2][p][2][1][2], v[2][p][2][2][2]>>])
        ELSE v

\* pickle.load(handle) of a file opened 'rb'
pickle_load(file) == as_results(Unpickle(file.content, 1, <<>>))

\* a file that does not exist
NoFile == [exists |-> FALSE, content |-> <<>>]

\* a variant that opens the file for appending, 'ab'
open_ab(file) == [exists |-> TRUE, content |-> file.content]

\* open(path, 'wb'): the file is created or cut to length zero
open_wb(file) == [exists |-> TRUE, content |-> <<>>]

\* proc_results: with open(self.path_OUT, 'wb') as handle:
\*                   pickle.dump(results, handle, ...)
dump_results(file, results) ==
    [open_wb(file) EXCEPT !.content = @ \o pickle_dumps(results)]

(***************************************************************************)
(* Saving and loading on their own: one result dumped to a path that holds *)
(* nothing, an earlier result or something else, then loaded.              *)
(***************************************************************************)
\* scaled polygons of the points (1, 2) and (3, 0): without points, of one
\* point, with a point twice, ...
StorePolygons == UNION {[1..n -> {<<1, 2>>, <<3, 0>>}] : n \in 0..MaxCand}

RECURSIVE SumLen(_)
SumLen(l) == IF l = <<>> THEN 0 ELSE Len(Head(l)[1]) + SumLen(Tail(l))

\* the lists proc_results dumps for at most MaxPolys polygons of at most
\* MaxPoints points together
StoreLists ==
    {l \in UNION {[1..n -> StorePolygons \X Classes] : n \in 0..MaxPolys} :
        SumLen(l) <= MaxPoints}

\* what the path holds before the save
StoreFiles ==
    {NoFile,
     [exists |-> TRUE, content |-> <<>>],
     [exists |-> TRUE, content |-> << <<"not a pickle", <<>>>> >>],
     dump_results(NoFile, skipped_by_annotator),
     dump_results(NoFile, PyList(<< << << <<3, 0>>, <<1, 2>> >>, "uncertain">> >>))}

InitStore ==
    /\ Idle
    /\ \E results \in {skipped_by_annotator} \cup {PyList(l) : l \in StoreLists},
          file \in StoreFiles :
           call = [results |-> results, file |-> file]
    /\ returned = <<>>

\* proc_results writes the file
Dump ==
    /\ returned = <<>>
    /\ returned' = [file |-> dump_results(call.file, call.results)]
    /\ UNCHANGED <<gui, out_files, a_listing, b_listing, app, event, call, panels>>

\* display_results reads the file
Load ==
    /\ returned # <<>>
    /\ DOMAIN returned = {"file"}
    /\ returned' = [file |-> returned.file, loaded |-> pickle_load(returned.file)]
    /\ UNCHANGED <<gui, out_files, a_listing, b_listing, app, event, call, panels>>

SpecStore == InitStore /\ [][Dump \/ Load]_vars

(***************************************************************************)
(* Properties of the stored results, under SpecStore.                      *)
(***************************************************************************)

\* C21: for every result r (the skip str or a list of polygons and tags),
\* after r was dumped to a path the load of that path returns a value equal
\* to r, entries and points in the same order, whatever the path held
\* before: nothing, an earlier result (the later save wins) or other bytes.
C21_LoadReturnsWhatWasSaved ==
    (returned # <<>> /\ "loaded" \in DOMAIN returned)
        => /\ returned.loaded[1] = call.results[1]
           /\ returned.loaded = call.results

\* a list of two entries, the first polygon with one point twice, loaded
\* from a path that held an earlier, different list
C21_Witness ==
    /\ returned # <<>>
    /\ "loaded" \in DOMAIN returned
    /\ call.file.exists
    /\ Len(call.file.content) > 2
    /\ call.results[1] = "list"
    /\ Len(call.results[2]) = 2
    /\ Len(call.results[2][1][1]) = 2
    /\ call.results[2][1][1][1] = call.results[2][1][1][2]
    /\ Len(returned.loaded[2]) = 2

(***************************************************************************)
(* Properties of what a save persists, under Spec.                         *)
(***************************************************************************)

\* C22: a save that writes its file persists one entry per committed
\* polygon, in the order of poly_collection, each entry the points of the
\* polygon in image coordinates (x * image_width and y * image_height over
\* the smaller panel extent, cut to integers) with the tag of the same
\* index; the candidate points are not in it.  A skip that writes its file
\* persists the str 'skipped by annotator', whatever is on the panel.
C22_SavePersistsCommittedPolygons ==
    [][(event'.handler = "proc_results" /\ event'.dumped # <<>>)
          => IF event'.arg = "Skip"
                THEN event'.dumped[2] = PyStr("skipped by annotator")
                ELSE /\ event'.dumped[2][1] = "list"
                     /\ Len(event'.dumped[2][2]) = Len(gui.disp_C.poly_collection)
                     /\ \A i \in 1..Len(gui.disp_C.poly_collection) :
                            /\ event'.dumped[2][2][i][2] = gui.disp_C.poly_class[i]
                            /\ Len(event'.dumped[2][2][i][1]) = Len(Polygons(gui.disp_C)[i])
                            /\ \A k \in 1..Len(Polygons(gui.disp_C)[i]) :
                                   event'.dumped[2][2][i][1][k] =
                                       <<(QPixmapSize(gui.path_B)[1]
                                              * Polygons(gui.disp_C)[i][k][1])
                                             \div Min(event'.r_size[1], event'.r_size[2]),
                                         (QPixmapSize(gui.path_B)[2]
                                              * Polygons(gui.disp_C)[i][k][2])
                                             \div Min(event'.r_size[1], event'.r_size[2])>>]_vars

\* a save found a candidate point and two polygons with different tags, the
\* first with a point, and persisted two entries
C22_Witness ==
    /\ event.handler = "proc_results"
    /\ event.arg = "Save"
    /\ event.dumped # <<>>
    /\ event.cand_before > 0
    /\ event.polys_before = 2
    /\ Len(event.dumped[2][2]) = 2
    /\ Len(event.dumped[2][2][1][1]) = 1
    /\ event.dumped[2][2][1][2] # event.dumped[2][2][2][2]

(***************************************************************************)
(* Properties of the automatic advance, under Spec.                        *)
(***************************************************************************)

\* the reference names of the listing that a scan of the directories finds
\* to do
Pending(out) ==
    {i \in DOMAIN scan(a_listing, b_listing, out) :
        scan(a_listing, b_listing, out)[i].class = "to_do"}

\* the class a scan of the directories gives reference name a_f
ClassOf(a_f, out) ==
    {scan(a_listing, b_listing, out)[i].class :
        i \in {j \in DOMAIN scan(a_listing, b_listing, out) :
                  scan(a_listing, b_listing, out)[j].a_f = a_f}}

\* C23 (as stated; a save that follows a failed preview breaks it): in
\* automatic mode every save or skip of the loaded pair that runs to its end
\* leaves the pair done for the next scan and not loaded again, and leaves
\* fewer pairs to do than there were before it, so that after finitely many
\* of them no pair is to do; and when no pair is to do the window is in the
\* state of 'No more images to compare', no pair loaded.
C23_EverySaveLeavesFewerPending ==
    [][(/\ event'.handler = "proc_results"
        /\ gui.auto_mode
        /\ event'.dumped # <<>>
        /\ event'.raised = "")
          => /\ ClassOf(gui.path_A[2], out_files') = {"done"}
             /\ gui'.path_A # gui.path_A
             /\ Cardinality(Pending(out_files')) < Cardinality(Pending(out_files))
             /\ Pending(out_files') = {}
                    => /\ gui'.path_A = EmptyStr
                       /\ gui'.path_B = EmptyStr
                       /\ gui'.disp_C.current_back = None]_vars

(***************************************************************************)
(* The image as the panel shows it, and the export of a click on it, under *)
(* SpecExport.                                                             *)
(***************************************************************************)
\* QSize(size).scaled(s, Qt.KeepAspectRatio): the largest size of the
\* proportions of size that fits into s, by integer division
scaled(size, s) ==
    IF size[1] = 0 \/ size[2] = 0 THEN s
    ELSE IF (s[2] * size[1]) \div size[2] <= s[1]
        THEN <<(s[2] * size[1]) \div size[2], s[2]>>
        ELSE <<s[1], (s[1] * size[2]) \div size[1]>>

\* refresh_panel: the size of self.pix = QPixmap(current_back).scaled(
\* self.rect().size(), Qt.KeepAspectRatio), which paintEvent draws at the
\* origin of the panel; a pixmap that is not null is at least 1x1
pix_size(image, r_size) ==
    IF image[1] = 0 \/ image[2] = 0 THEN <<0, 0>>
    ELSE <<IF scaled(image, r_size)[1] >= 1 THEN scaled(image, r_size)[1] ELSE 1,
           IF scaled(image, r_size)[2] >= 1 THEN scaled(image, r_size)[2] ELSE 1>>

\* C24 (as stated; the scaling over the smaller panel extent breaks it): for
\* every panel size and every target image size, a point clicked inside the
\* displayed image (the target scaled into the panel with its proportions
\* kept, drawn at the origin) is exported into [0, image_width] x
\* [0, image_height], and the bottom right corner of the displayed image is
\* exported to (image_width, image_height).
C24_ClickInsideExportedInside ==
    (/\ returned # <<>>
     /\ call.r_size[1] > 0 /\ call.r_size[2] > 0
     /\ call.image[1] > 0 /\ call.image[2] > 0)
        => /\ returned.raised = ""
           /\ \A p \in 1..Len(call.polygons) :
                  \A k \in 1..Len(call.polygons[p]) :
                      /\ (/\ call.polygons[p][k][1] <= pix_size(call.image, call.r_size)[1]
                          /\ call.polygons[p][k][2] <= pix_size(call.image, call.r_size)[2])
                             => /\ returned.value[p][k][1] \in 0..call.image[1]
                                /\ returned.value[p][k][2] \in 0..call.image[2]
                      /\ call.polygons[p][k] = pix_size(call.image, call.r_size)
                             => returned.value[p][k] = call.image

(***************************************************************************)
(* The automatic mode over directories that hold the same picture in two   *)
(* formats: the window after __init__, then saves, skips and 'Load next'   *)
(* with nothing drawn.                                                     *)
(***************************************************************************)
\* p as .png and as .jpg, q as .png
BatchRefs ==
    {<<"p">> \o a_tag \o png, <<"p">> \o a_tag \o <<".", "j", "p", "g">>,
     <<"q">> \o a_tag \o png}

BatchTargets ==
    {<<"p">> \o b_tag \o png, <<"p">> \o b_tag \o <<".", "j", "p", "g">>,
     <<"q">> \o b_tag \o png}

InitBatch ==
    /\ a_listing \in Listings(BatchRefs)
    /\ b_listing \in SUBSET BatchTargets
    /\ out_files \in SUBSET ResultNames
    /\ gui = auto_load(update_message_box(NewGUI(global_default_classes, TRUE),
                                          "Automatic mode active!"),
                       a_listing, b_listing, out_files)
    /\ app = "running"
    /\ event = [handler |-> "__init__", arg |-> "", r_size |-> <<>>, raised |-> "",
                dumped |-> <<>>, cand_before |-> 0, polys_before |-> 0]
    /\ call = <<>>
    /\ returned = <<>>
    /\ panels = NoPanels

SpecBatch == InitBatch /\ [][ProcResults \/ LoadNext]_vars

\* C25 (as stated; the extension dropped from the result name breaks it):
\* when a save or skip of the loaded pair has written its record, every
\* other tagged reference name of the listing derives a result name different
\* from the one written, and every other reference that was to do before the
\* save is still to do after it.
C25_SaveLeavesOtherPairsPending ==
    [][(/\ event'.handler = "proc_results"
        /\ event'.dumped # <<>>
        /\ event'.raised = "")
          => \A j \in DOMAIN a_listing :
                 (Contains(a_listing[j], a_tag) /\ a_listing[j] # gui.path_A[2])
                     => /\ out_name(a_listing[j]) # out_name(gui.path_A[2])
                        /\ ClassOf(a_listing[j], out_files) = {"to_do"}
                               => ClassOf(a_listing[j], out_files') = {"to_do"}]_vars

(***************************************************************************)
(* Panels constructed one after another in one process, each used through  *)
(* its methods.                                                            *)
(***************************************************************************)
\* most panels constructed
MaxPanels == 2

\* most lists the process creates
MaxLists == 7

\* an operation of instance self ran and left the process as Q
Ran(op, self, Q) ==
    /\ Len(Q.heap) <= MaxLists
    /\ panels' = [Q EXCEPT !.last = [op |-> op, self |-> self]]
    /\ UNCHANGED <<gui, out_files, a_listing, b_listing, app, event, call, returned>>

InitPanels ==
    /\ Idle
    /\ call = <<>>
    /\ returned = <<>>

Construct ==
    /\ Len(panels.inst) < MaxPanels
    /\ Ran("__init__", Len(panels.inst) + 1,
           init_of(panels, global_default_classes[1][1]))

\* select_image shows an image on the panel
PanelRefresh ==
    \E self \in DOMAIN panels.inst :
        /\ Back(panels, self) = None
        /\ Ran("refresh_panel", self,
               refresh_panel_of(panels, self,
                                Join(global_b_dir, <<DialogName>> \o b_tag \o png)))

PanelPress ==
    \E self \in DOMAIN panels.inst, button \in {"Left", "Right"} :
        /\ button = "Left"
               => Len(panels.heap[Ref(panels, self, "candidate_poly_points")]) < MaxCand
        /\ button = "Right"
               => Len(panels.heap[Ref(panels, self, "poly_collection")]) < MaxPolys
        /\ Ran("mousePressEvent", self,
               mousePressEvent_of(panels, self, button,
                   ClickPos(Len(panels.heap[Ref(panels, self, "candidate_poly_points")]))))

PanelUndo ==
    \E self \in DOMAIN panels.inst : Ran("do_undo", self, do_undo_of(panels, self))

PanelClear ==
    \E self \in DOMAIN panels.inst : Ran("clear", self, clear_of(panels, self))

SpecPanels ==
    InitPanels
        /\ [][Construct \/ PanelRefresh \/ PanelPress \/ PanelUndo \/ PanelClear]_vars

\* C26 (as stated; the lists of the class body break it): a panel just
\* constructed shows no candidate point, no polygon and no tag, whatever was
\* done with the panels constructed before it, and an operation of one panel
\* leaves what every other panel shows as it was.
C26_EditorsAreIndependent ==
    [][/\ panels'.last.op = "__init__"
           => Shown(panels', panels'.last.self) =
                  [candidate_poly_points |-> <<>>, poly_collection |-> <<>>,
                   poly_class |-> <<>>]
       /\ \A other \in DOMAIN panels.inst :
              other # panels'.last.self => Shown(panels', other) = Shown(panels, other)]_vars

====
